---- MODULE Spec2Model ----
(***************************************************************************)
(* A model of har-to-llm's HARConverter (converter.ts) and of the filter   *)
(* sequence of its command line (cli.ts).                                  *)
(*                                                                         *)
(* Strings are TLA+ strings.  A URL is the sequence of the pieces between  *)
(* its "/" characters, i.e. url.split("/"), so that string equality of two *)
(* URLs is equality of the two sequences.  A JSON value is a tagged        *)
(* record; an object carries its keys in the order Object.keys gives them, *)
(* the order of insertion.  JavaScript's undefined is the value Undefined. *)
(***************************************************************************)
EXTENDS Integers, Sequences, FiniteSets, TLC

(***************************************************************************)
(* Bounds of the model.                                                    *)
(***************************************************************************)
MaxEntries == 3

(***************************************************************************)
(* JavaScript values.                                                      *)
(***************************************************************************)
Undefined == "<undefined>"

JNull == [t |-> "null"]
JNum(n) == [t |-> "number", n |-> n]
JStr(s) == [t |-> "string", s |-> s]
JBool(b) == [t |-> "boolean", b |-> b]
JArr(e) == [t |-> "array", e |-> e]

\* Object keys in the order Array.prototype.sort gives them.
KeyOrder == <<"id", "name">>

\* An object whose keys were inserted in the order keys.
JObjKeys(keys, f) == [t |-> "object", keys |-> keys, f |-> f]

\* An object whose keys were inserted in sorted order.
JObj(f) == JObjKeys(SelectSeq(KeyOrder, LAMBDA k : k \in DOMAIN f), f)

\* Object.keys(o)
Keys(o) == o.keys

\* typeof v
TypeOf(v) ==
  IF v.t \in {"null", "array", "object"} THEN "object" ELSE v.t

\* Array.isArray(v)
IsArray(v) == v.t = "array"

(***************************************************************************)
(* JSON.parse on the body texts of the model.  A text outside the table    *)
(* makes JSON.parse throw a SyntaxError.  Two different texts may parse to *)
(* the same value.                                                         *)
(***************************************************************************)
JsonTexts ==
  ( "{}"                  :> JObj(<<>>) ) @@
  ( "null"                :> JNull ) @@
  ( "[]"                  :> JArr(<<>>) ) @@
  ( "{\"id\":1}"          :> JObj([id |-> JNum(1)]) ) @@
  ( "{\"id\":2}"          :> JObj([id |-> JNum(2)]) ) @@
  ( "{ \"id\": 1 }"       :> JObj([id |-> JNum(1)]) ) @@
  ( "{\"id\":\"x\"}"      :> JObj([id |-> JStr("x")]) ) @@
  ( "{\"name\":\"x\"}"    :> JObj([name |-> JStr("x")]) ) @@
  ( "{\"id\":1,\"name\":\"x\"}" :> JObj([id |-> JNum(1), name |-> JStr("x")]) ) @@
  ( "{\"id\":2,\"name\":\"y\"}" :> JObj([id |-> JNum(2), name |-> JStr("y")]) ) @@
  ( "{\"name\":\"y\",\"id\":-5}" :>
      JObjKeys(<<"name", "id">>, [id |-> JNum(-5), name |-> JStr("y")]) ) @@
  ( "{\"id\":null}"     :> JObj([id |-> JNull]) ) @@
  ( "{\"id\":{\"name\":\"x\"}}" :> JObj([id |-> JObj([name |-> JStr("x")])]) ) @@
  ( "{\"id\":[1,2]}"    :> JObj([id |-> JArr(<<JNum(1), JNum(2)>>)]) ) @@
  ( "{\"id\":[3,\"a\",4]}" :> JObj([id |-> JArr(<<JNum(3), JStr("a"), JNum(4)>>)]) ) @@
  ( "[[1,2],[3]]"         :> JArr(<<JArr(<<JNum(1), JNum(2)>>), JArr(<<JNum(3)>>)>>) ) @@
  ( "[[1,\"a\"],[],[\"b\"]]" :>
      JArr(<<JArr(<<JNum(1), JStr("a")>>), JArr(<<>>), JArr(<<JStr("b")>>)>>) ) @@
  ( "[{\"id\":[1,2]},{\"id\":1},null]" :>
      JArr(<<JObj([id |-> JArr(<<JNum(1), JNum(2)>>)]), JObj([id |-> JNum(1)]),
             JNull>>) ) @@
  ( "[null]"              :> JArr(<<JNull>>) ) @@
  ( "true"                :> JBool(TRUE) ) @@
  ( "false"               :> JBool(FALSE) ) @@
  ( "\"x\""             :> JStr("x") ) @@
  ( "\"7\""             :> JStr("7") ) @@
  ( "8"                   :> JNum(8) ) @@
  ( "[{\"id\":1},{\"id\":2}]" :> JArr(<<JObj([id |-> JNum(1)]), JObj([id |-> JNum(2)])>>) ) @@
  ( "[{\"id\":3}]"        :> JArr(<<JObj([id |-> JNum(3)])>>) ) @@
  ( "[{\"id\":1},{\"name\":\"x\"}]" :> JArr(<<JObj([id |-> JNum(1)]), JObj([name |-> JStr("x")])>>) ) @@
  ( "[1,\"a\"]"           :> JArr(<<JNum(1), JStr("a")>>) ) @@
  ( "7"                   :> JNum(7) )

\* JSON.parse(text) throws
ParseThrows(text) == text \notin DOMAIN JsonTexts

\* JSON.parse(text), where it does not throw
JsonParse(text) == JsonTexts[text]

(***************************************************************************)
(* Object.keys(o).sort().  The key names of the model hold none of the     *)
(* characters , { } [ ].                                                   *)
(***************************************************************************)
SortedKeys(o) ==
  SelectSeq(KeyOrder, LAMBDA k : \E n \in DOMAIN Keys(o) : Keys(o)[n] = k)

(***************************************************************************)
(* getStructureKey.  The string it builds is kept as a record: "[]" is     *)
(* [k |-> "[]"], "[" + key + "]" is [k |-> "[_]", of |-> key], "{a,b}" is  *)
(* [k |-> "{_}", keys |-> <<"a", "b">>] and a typeof name is               *)
(* [k |-> "typeof", ty |-> name].                                          *)
(***************************************************************************)
RECURSIVE getStructureKey(_)
\* getStructureKey joining the keys of an object as Object.keys gives them,
\* without sorting them.
getStructureKeyUnsorted(obj) ==
  IF IsArray(obj)
  THEN IF Len(obj.e) = 0
       THEN [k |-> "[]"]
       ELSE [k |-> "[_]", of |-> getStructureKey(obj.e[1])]
  ELSE IF TypeOf(obj) = "object" /\ obj.t # "null"
       THEN [k |-> "{_}", keys |-> Keys(obj)]
       ELSE [k |-> "typeof", ty |-> TypeOf(obj)]

getStructureKey(obj) ==
  IF IsArray(obj)
  THEN IF Len(obj.e) = 0
       THEN [k |-> "[]"]
       ELSE [k |-> "[_]", of |-> getStructureKey(obj.e[1])]
  ELSE IF TypeOf(obj) = "object" /\ obj.t # "null"
       THEN [k |-> "{_}", keys |-> SortedKeys(obj)]
       ELSE [k |-> "typeof", ty |-> TypeOf(obj)]

(***************************************************************************)
(* normalizeJsonStructure: arrays keep the first element of each structure *)
(* key, recursively.                                                       *)
(***************************************************************************)
RECURSIVE normalizeJsonStructure(_)
RECURSIVE UniqueStructures(_, _, _, _)
\* The loop of normalizeJsonStructure pushing the element itself and not the
\* normalized element.
UniqueStructuresOfElements(arr, i, seenStructureKeys, uniqueStructures) ==
  IF i > Len(arr)
  THEN uniqueStructures
  ELSE LET normalizedElement == normalizeJsonStructure(arr[i])
           structureKey == getStructureKey(normalizedElement)
       IN IF structureKey \notin seenStructureKeys
          THEN UniqueStructures(arr, i + 1, seenStructureKeys \cup {structureKey},
                                Append(uniqueStructures, arr[i]))
          ELSE UniqueStructures(arr, i + 1, seenStructureKeys, uniqueStructures)

UniqueStructures(arr, i, seenStructureKeys, uniqueStructures) ==
  IF i > Len(arr)
  THEN uniqueStructures
  ELSE LET normalizedElement == normalizeJsonStructure(arr[i])
           structureKey == getStructureKey(normalizedElement)
       IN IF structureKey \notin seenStructureKeys
          THEN UniqueStructures(arr, i + 1, seenStructureKeys \cup {structureKey},
                                Append(uniqueStructures, normalizedElement))
          ELSE UniqueStructures(arr, i + 1, seenStructureKeys, uniqueStructures)

normalizeJsonStructure(obj) ==
  IF IsArray(obj)
  THEN IF Len(obj.e) = 0
       THEN obj
       ELSE JArr(UniqueStructures(obj.e, 1, {}, <<>>))
  ELSE IF TypeOf(obj) = "object" /\ obj.t # "null"
       THEN JObjKeys(Keys(obj),
                     [key \in DOMAIN obj.f |-> normalizeJsonStructure(obj.f[key])])
       ELSE obj

(***************************************************************************)
(* areJsonStructuresSimilar.  The result is "true", "false", or "throw"    *)
(* when Object.keys(null) raises a TypeError: typeof null is "object", so  *)
(* a null second argument reaches Object.keys(obj2).                       *)
(***************************************************************************)
RECURSIVE areJsonStructuresSimilar(_, _)
RECURSIVE SimilarAtKeys(_, _, _, _)
SimilarAtKeys(obj1, obj2, keys1, i) ==
  IF i > Len(keys1)
  THEN "true"
  ELSE LET r == areJsonStructuresSimilar(obj1.f[keys1[i]], obj2.f[keys1[i]])
       IN IF r = "true" THEN SimilarAtKeys(obj1, obj2, keys1, i + 1) ELSE r

areJsonStructuresSimilar(obj1, obj2) ==
  IF TypeOf(obj1) # TypeOf(obj2) THEN "false"
  ELSE IF IsArray(obj1) # IsArray(obj2) THEN "false"
  ELSE IF IsArray(obj1)
  THEN IF Len(obj1.e) = 0 /\ Len(obj2.e) = 0 THEN "true"
       ELSE IF Len(obj1.e) = 0 \/ Len(obj2.e) = 0 THEN "false"
       ELSE areJsonStructuresSimilar(obj1.e[1], obj2.e[1])
  ELSE IF TypeOf(obj1) = "object" /\ obj1.t # "null"
  THEN IF obj2.t = "null" THEN "throw"
       ELSE IF Len(SortedKeys(obj1)) # Len(SortedKeys(obj2)) THEN "false"
       ELSE IF SortedKeys(obj1) # SortedKeys(obj2) THEN "false"
       ELSE SimilarAtKeys(obj1, obj2, SortedKeys(obj1), 1)
  ELSE "true"

(***************************************************************************)
(* Strings.  TLC does not look inside a string, so the string functions    *)
(* the code uses are tables over the strings of the model.                 *)
(***************************************************************************)
\* name.toLowerCase(), for the header names of the model
ToLowerCase(name) ==
  CASE name = "Authorization" -> "authorization"
    [] name = "Content-Type" -> "content-type"
    [] name = "Date" -> "date"
    [] name = "ETag" -> "etag"
    [] name = "Expires" -> "expires"
    [] name = "X-Api-Key" -> "x-api-key"
    [] OTHER -> name

\* mimeType.includes('json')
IncludesJson(mimeType) ==
  mimeType \in {"application/json", "application/vnd.api+json", "text/json"}

\* domain.includes(d), for the host names and the filter strings of the model
Includes(domain, d) ==
  \/ d = ""
  \/ d = domain
  \/ d = "example.com" /\ domain \in {"api.example.com", "cdn.example.com"}
  \/ d = "api" /\ domain \in {"api.example.com", "api.other.org"}
  \/ d = "other" /\ domain = "api.other.org"

\* /^\d+$/ on a piece of a URL
IsNumeric(piece) ==
  piece \in {"1", "2", "3", "42", "12345", "123456789012345678901234"}

\* /^[0-9a-f]{8}-[0-9a-f]{4}-[0-9a-f]{4}-[0-9a-f]{4}-[0-9a-f]{12}$/i
IsUuid(piece) ==
  piece \in {"550e8400-e29b-41d4-a716-446655440000",
             "550E8400-E29B-41D4-A716-446655440001"}

\* /^[a-zA-Z0-9]{24}$/
IsAlnum24(piece) ==
  piece \in {"507f1f77bcf86cd799439011", "abcdefghijklmnopqrstuvwx",
             "123456789012345678901234"}

\* /^[a-zA-Z0-9]{32}$/
IsAlnum32(piece) ==
  piece \in {"d41d8cd98f00b204e9800998ecf8427e", "ghijklmnopqrstuvwxyzghijklmnopqr"}

(***************************************************************************)
(* normalizeUrl: four String.replace calls with global regular             *)
(* expressions, one after the other.  Each pattern is "/" + a whole piece  *)
(* + ("/" or the end of the string); a match that ends in "/" consumes it, *)
(* so the piece after a replaced piece has no "/" left in front of it and  *)
(* the search goes on at the piece after that one.                         *)
(***************************************************************************)
Matches(rule, piece) ==
  CASE rule = 1 -> IsNumeric(piece)
    [] rule = 2 -> IsUuid(piece)
    [] rule = 3 -> IsAlnum24(piece)
    [] rule = 4 -> IsAlnum32(piece)

Placeholder(rule) ==
  CASE rule = 1 -> "{id}"
    [] rule = 2 -> "{uuid}"
    [] rule = 3 -> "{objectId}"
    [] rule = 4 -> "{hash}"

RECURSIVE ReplaceAll(_, _, _)
ReplaceAll(url, i, rule) ==
  IF i > Len(url)
  THEN url
  ELSE IF Matches(rule, url[i])
       THEN ReplaceAll([url EXCEPT ![i] = Placeholder(rule)],
                       IF i < Len(url) THEN i + 2 ELSE i + 1, rule)
       ELSE ReplaceAll(url, i + 1, rule)

normalizeUrl(url) ==
  ReplaceAll(ReplaceAll(ReplaceAll(ReplaceAll(url, 2, 1), 2, 2), 2, 3), 2, 4)

(***************************************************************************)
(* new URL(url): throws a TypeError unless the text is an absolute URL.    *)
(* The host names of the model are lower case and carry no port.           *)
(***************************************************************************)
UrlThrows(url) ==
  ~ ( /\ Len(url) >= 3
      /\ url[1] \in {"http:", "https:"}
      /\ url[2] = ""
      /\ url[3] # "" )

Hostname(url) == url[3]

(***************************************************************************)
(* isUselessHeader                                                         *)
(***************************************************************************)
uselessHeaders ==
  { "user-agent", "accept", "accept-language", "accept-encoding",
    "cache-control", "pragma", "upgrade-insecure-requests",
    "sec-fetch-dest", "sec-fetch-mode", "sec-fetch-site", "sec-fetch-user",
    "sec-ch-ua", "sec-ch-ua-mobile", "sec-ch-ua-platform",
    "connection", "keep-alive", "transfer-encoding", "content-encoding",
    "content-length", "date", "server", "via", "x-powered-by",
    "x-aspnet-version", "x-aspnetmvc-version",
    "etag", "last-modified", "if-modified-since", "if-none-match",
    "if-match", "if-unmodified-since",
    "x-frame-options", "x-content-type-options", "x-xss-protection",
    "strict-transport-security", "content-security-policy", "referrer-policy",
    "x-forwarded-for", "x-real-ip", "x-forwarded-proto", "x-forwarded-host",
    "x-forwarded-port", "x-requested-with",
    "cf-ray", "cf-cache-status", "cf-request-id", "x-cache", "x-cache-hit",
    "x-amz-cf-id", "x-amz-cf-pop",
    "origin", "referer", "dnt", "save-data", "viewport-width",
    "device-memory", "downlink", "ect", "rtt" }

isUselessHeader(headerName) == headerName \in uselessHeaders

(***************************************************************************)
(* convertRequest.  A name/value list becomes an object, a later pair of   *)
(* the same key overwriting an earlier one; header names are lower-cased   *)
(* and the useless ones dropped.  postData is NoPostData when the entry    *)
(* has none.                                                               *)
(***************************************************************************)
NoPostData == [absent |-> TRUE]

HasPostData(harRequest) == "absent" \notin DOMAIN harRequest.postData

LastIndex(S) == CHOOSE i \in S : \A j \in S : j <= i

HeaderObject(list) ==
  LET keys == { ToLowerCase(list[i].name) : i \in 1..Len(list) } \ uselessHeaders
  IN [key \in keys |->
        list[LastIndex({i \in 1..Len(list) : ToLowerCase(list[i].name) = key})].value]

QueryObject(list) ==
  LET keys == { list[i].name : i \in 1..Len(list) }
  IN [key \in keys |->
        list[LastIndex({i \in 1..Len(list) : list[i].name = key})].value]

convertRequest(harRequest) ==
  [ method |-> harRequest.method,
    url |-> harRequest.url,
    headers |-> HeaderObject(harRequest.headers),
    queryParams |-> QueryObject(harRequest.queryString),
    body |-> IF HasPostData(harRequest) THEN harRequest.postData.text ELSE Undefined ]

\* createSemanticSignature and createRequestSignature build the same record.
createSemanticSignature(entry) ==
  LET request == convertRequest(entry.request)
  IN [ method |-> request.method, url |-> request.url, headers |-> request.headers,
       queryParams |-> request.queryParams, body |-> request.body ]

createRequestSignature(entry) ==
  LET request == convertRequest(entry.request)
  IN [ method |-> request.method, url |-> request.url, headers |-> request.headers,
       queryParams |-> request.queryParams, body |-> request.body ]

(***************************************************************************)
(* The comparison functions.  Each gives "true" or "false", or "throw"     *)
(* when the call raises an exception instead of returning.                 *)
(***************************************************************************)
Bool(b) == IF b THEN "true" ELSE "false"

\* try { return r } catch { return handler }
Catch(r, handler) == IF r = "throw" THEN handler ELSE r

\* if (!r) { return false }, and then the rest of the function
IfNot(r, rest) == IF r # "true" THEN r ELSE rest

\* !value, for a string or undefined
Falsy(value) == value \in {Undefined, ""}

\* areQueryParamsSimilar comparing the values of the parameters as well as
\* their names.
areQueryParamsSimilarValues(params1, params2) ==
  IF Cardinality(DOMAIN params1) # Cardinality(DOMAIN params2) THEN "false"
  ELSE IF DOMAIN params1 # DOMAIN params2 THEN "false"
  ELSE Bool(params1 = params2)

areQueryParamsSimilar(params1, params2) ==
  IF Cardinality(DOMAIN params1) # Cardinality(DOMAIN params2) THEN "false"
  ELSE IF DOMAIN params1 # DOMAIN params2 THEN "false"
  ELSE "true"

\* areHeadersSimilar comparing the values of the headers as well as their
\* names.
areHeadersSimilarValues(headers1, headers2) ==
  IF Cardinality(DOMAIN headers1) # Cardinality(DOMAIN headers2) THEN "false"
  ELSE IF DOMAIN headers1 # DOMAIN headers2 THEN "false"
  ELSE Bool(headers1 = headers2)

areHeadersSimilar(headers1, headers2) ==
  IF Cardinality(DOMAIN headers1) # Cardinality(DOMAIN headers2) THEN "false"
  ELSE IF DOMAIN headers1 # DOMAIN headers2 THEN "false"
  ELSE "true"

\* The try block of areBodiesSimilar: JSON.parse of both, then the structure
\* comparison.
BodiesTry(body1, body2) ==
  IF ParseThrows(body1) \/ ParseThrows(body2)
  THEN "throw"
  ELSE areJsonStructuresSimilar(JsonParse(body1), JsonParse(body2))

\* areBodiesSimilar with a catch block that gives false instead of comparing
\* the texts.
areBodiesSimilarCatchFalse(body1, body2) ==
  IF Falsy(body1) /\ Falsy(body2) THEN "true"
  ELSE IF Falsy(body1) \/ Falsy(body2) THEN "false"
  ELSE IF BodiesTry(body1, body2) = "throw"
       THEN "false"
       ELSE BodiesTry(body1, body2)

areBodiesSimilar(body1, body2) ==
  IF Falsy(body1) /\ Falsy(body2) THEN "true"
  ELSE IF Falsy(body1) \/ Falsy(body2) THEN "false"
  ELSE Catch(BodiesTry(body1, body2), Bool(body1 = body2))

areRequestsSemanticallySimilar(sig1, sig2) ==
  IF sig1.method # sig2.method THEN "false"
  ELSE IF normalizeUrl(sig1.url) # normalizeUrl(sig2.url) THEN "false"
  ELSE IfNot(areQueryParamsSimilar(sig1.queryParams, sig2.queryParams),
             IfNot(areBodiesSimilar(sig1.body, sig2.body),
                   IfNot(areHeadersSimilar(sig1.headers, sig2.headers),
                         "true")))

\* content && content.mimeType && content.mimeType.includes('json'): the
\* value of the && chain is undefined, '' or a boolean.
HasJson(response) ==
  IF response.content.mimeType = Undefined THEN "undefined"
  ELSE IF response.content.mimeType = "" THEN "''"
  ELSE Bool(IncludesJson(response.content.mimeType))

\* text || '{}'
TextOrEmptyObject(text) == IF Falsy(text) THEN "{}" ELSE text

\* The try block of areResponsesSemanticallySimilar.
ResponsesTry(text1, text2) ==
  IF ParseThrows(TextOrEmptyObject(text1)) \/ ParseThrows(TextOrEmptyObject(text2))
  THEN "throw"
  ELSE areJsonStructuresSimilar(
         normalizeJsonStructure(JsonParse(TextOrEmptyObject(text1))),
         normalizeJsonStructure(JsonParse(TextOrEmptyObject(text2))))

areResponsesSemanticallySimilar(entry1, entry2) ==
  LET response1 == entry1.response
      response2 == entry2.response
  IN IF response1.status # response2.status THEN "false"
     ELSE IF HasJson(response1) # HasJson(response2) THEN "false"
     ELSE IF HasJson(response1) = "true" /\ HasJson(response2) = "true"
     THEN Catch(ResponsesTry(response1.content.text, response2.content.text),
                Bool(response1.content.text = response2.content.text))
     ELSE Bool(response1.content.text = response2.content.text)

(***************************************************************************)
(* getStaticHeaders and areRequestsEqual                                   *)
(***************************************************************************)
dynamicHeaders ==
  { "user-agent", "date", "if-modified-since", "if-none-match",
    "cache-control", "pragma", "expires", "last-modified", "etag",
    "x-requested-with", "x-forwarded-for", "x-real-ip" }

getStaticHeaders(headers) ==
  [key \in {k \in DOMAIN headers : ToLowerCase(k) \notin dynamicHeaders} |-> headers[key]]

\* object[key] where the object may lack the key: undefined
Get(object, key) == IF key \in DOMAIN object THEN object[key] ELSE Undefined

\* areRequestsEqual comparing the names of the query parameters and not
\* their values.
areRequestsEqualQueryNames(sig1, sig2) ==
  LET staticHeaders1 == getStaticHeaders(sig1.headers)
      staticHeaders2 == getStaticHeaders(sig2.headers)
  IN IF sig1.method # sig2.method \/ sig1.url # sig2.url THEN "false"
     ELSE IF DOMAIN sig1.queryParams # DOMAIN sig2.queryParams THEN "false"
     ELSE IF Cardinality(DOMAIN staticHeaders1) # Cardinality(DOMAIN staticHeaders2)
     THEN "false"
     ELSE IF \E key \in DOMAIN staticHeaders1 :
               staticHeaders1[key] # Get(staticHeaders2, key)
     THEN "false"
     ELSE IF sig1.body # sig2.body THEN "false"
     ELSE "true"

areRequestsEqual(sig1, sig2) ==
  LET staticHeaders1 == getStaticHeaders(sig1.headers)
      staticHeaders2 == getStaticHeaders(sig2.headers)
  IN IF sig1.method # sig2.method \/ sig1.url # sig2.url THEN "false"
     ELSE IF Cardinality(DOMAIN sig1.queryParams) # Cardinality(DOMAIN sig2.queryParams)
     THEN "false"
     ELSE IF \E key \in DOMAIN sig1.queryParams :
               sig1.queryParams[key] # Get(sig2.queryParams, key)
     THEN "false"
     ELSE IF Cardinality(DOMAIN staticHeaders1) # Cardinality(DOMAIN staticHeaders2)
     THEN "false"
     ELSE IF \E key \in DOMAIN staticHeaders1 :
               staticHeaders1[key] # Get(staticHeaders2, key)
     THEN "false"
     ELSE IF sig1.body # sig2.body THEN "false"
     ELSE "true"

(***************************************************************************)
(* deduplicateEntries.  The arrays of the code hold references to the      *)
(* entries of the input: the model keeps them as positions in the input,   *)
(* and Deref gives the entries.  DedupIteration is one turn of the outer   *)
(* loop, for the entry at position i: the inner loop compares it with the  *)
(* kept entries in order and stops at the first one similar in request and *)
(* response.  An exception leaves the function at once: thrown is TRUE.    *)
(***************************************************************************)
Deref(entries, positions) == [k \in 1..Len(positions) |-> entries[positions[k]]]

\* IsDuplicateOf without the comparison of the responses.
IsDuplicateOfRequestOnly(entry, existingEntry) ==
  areRequestsSemanticallySimilar(createSemanticSignature(entry),
                                 createSemanticSignature(existingEntry))

\* The body of the inner loop for one existing entry: "true" when the entry
\* is a duplicate of it.
IsDuplicateOf(entry, existingEntry) ==
  LET requestsSimilar == areRequestsSemanticallySimilar(
                           createSemanticSignature(entry),
                           createSemanticSignature(existingEntry))
      responsesSimilar == areResponsesSemanticallySimilar(entry, existingEntry)
  IN IF requestsSimilar = "throw" \/ responsesSimilar = "throw" THEN "throw"
     ELSE Bool(requestsSimilar = "true" /\ responsesSimilar = "true")

RECURSIVE ShouldAdd(_, _, _, _)
ShouldAdd(entries, deduplicated, i, k) ==
  IF k > Len(deduplicated) THEN "true"
  ELSE IF IsDuplicateOf(entries[i], entries[deduplicated[k]]) = "throw" THEN "throw"
  ELSE IF IsDuplicateOf(entries[i], entries[deduplicated[k]]) = "true" THEN "false"
  ELSE ShouldAdd(entries, deduplicated, i, k + 1)

\* DedupIteration as a loop that deletes a duplicate from the array it walks
\* would behave: the entry after a deleted one is never compared.
DedupIterationSkipping(entries, deduplicated, i) ==
  LET shouldAdd == IF i > 1 /\ \A k \in 1..Len(deduplicated) : deduplicated[k] # i - 1
                   THEN "true"
                   ELSE ShouldAdd(entries, deduplicated, i, 1)
  IN [ deduplicated |-> IF shouldAdd = "true" THEN Append(deduplicated, i)
                        ELSE deduplicated,
       thrown |-> shouldAdd = "throw" ]

DedupIteration(entries, deduplicated, i) ==
  LET shouldAdd == ShouldAdd(entries, deduplicated, i, 1)
  IN [ deduplicated |-> IF shouldAdd = "true" THEN Append(deduplicated, i)
                        ELSE deduplicated,
       thrown |-> shouldAdd = "throw" ]

RECURSIVE DedupLoop(_, _, _)
DedupLoop(entries, i, deduplicated) ==
  IF i > Len(entries)
  THEN [value |-> Deref(entries, deduplicated), thrown |-> FALSE]
  ELSE LET step == DedupIteration(entries, deduplicated, i)
       IN IF step.thrown
          THEN [value |-> <<>>, thrown |-> TRUE]
          ELSE DedupLoop(entries, i + 1, step.deduplicated)

deduplicateEntries(entries) == DedupLoop(entries, 1, <<>>)

(***************************************************************************)
(* removeExactDuplicates.  seen holds the signatures of the kept entries.  *)
(***************************************************************************)
\* ExactIteration with unshift in place of push.
ExactIterationUnshift(entries, seen, deduplicated, i) ==
  LET signature == createRequestSignature(entries[i])
      isDuplicate == \E k \in 1..Len(seen) :
                       areRequestsEqual(signature, seen[k]) = "true"
  IN IF isDuplicate
     THEN [seen |-> seen, deduplicated |-> deduplicated]
     ELSE [seen |-> <<signature>> \o seen, deduplicated |-> <<i>> \o deduplicated]

ExactIteration(entries, seen, deduplicated, i) ==
  LET signature == createRequestSignature(entries[i])
      isDuplicate == \E k \in 1..Len(seen) :
                       areRequestsEqual(signature, seen[k]) = "true"
  IN IF isDuplicate
     THEN [seen |-> seen, deduplicated |-> deduplicated]
     ELSE [seen |-> Append(seen, signature), deduplicated |-> Append(deduplicated, i)]

RECURSIVE ExactLoop(_, _, _, _)
ExactLoop(entries, i, seen, deduplicated) ==
  IF i > Len(entries)
  THEN Deref(entries, deduplicated)
  ELSE LET step == ExactIteration(entries, seen, deduplicated, i)
       IN ExactLoop(entries, i + 1, step.seen, step.deduplicated)

removeExactDuplicates(entries) == ExactLoop(entries, 1, <<>>, <<>>)

(***************************************************************************)
(* filterEntries.  An option the caller does not give is a key the options *)
(* record does not have.  The callback of Array.filter gives "true",       *)
(* "false", or "throw" when new URL(...) raises.                           *)
(***************************************************************************)
Has(options, key) == key \in DOMAIN options

\* options.deduplicate !== false
DeduplicateRequested(options) ==
  ~ (Has(options, "deduplicate") /\ options.deduplicate = FALSE)

\* a number used as a condition: 0 is false
Truthy(number) == number # 0

Keep(entry, options) ==
  IF Has(options, "methods") /\ entry.request.method \notin options.methods
  THEN "false"
  ELSE IF Has(options, "statusCodes") /\ entry.response.status \notin options.statusCodes
  THEN "false"
  ELSE IF UrlThrows(entry.request.url)
  THEN "throw"
  ELSE IF /\ Has(options, "domains")
          /\ ~ \E d \in options.domains : Includes(Hostname(entry.request.url), d)
  THEN "false"
  ELSE IF /\ Has(options, "excludeDomains")
          /\ \E d \in options.excludeDomains : Includes(Hostname(entry.request.url), d)
  THEN "false"
  ELSE IF /\ Has(options, "minDuration")
          /\ Truthy(options.minDuration)
          /\ entry.time < options.minDuration
  THEN "false"
  ELSE IF /\ Has(options, "maxDuration")
          /\ Truthy(options.maxDuration)
          /\ entry.time > options.maxDuration
  THEN "false"
  ELSE "true"

RECURSIVE FilterLoop(_, _, _, _)
FilterLoop(entries, options, i, kept) ==
  IF i > Len(entries)
  THEN [value |-> kept, thrown |-> FALSE]
  ELSE IF Keep(entries[i], options) = "throw"
       THEN [value |-> <<>>, thrown |-> TRUE]
       ELSE FilterLoop(entries, options, i + 1,
                       IF Keep(entries[i], options) = "true"
                       THEN Append(kept, entries[i]) ELSE kept)

\* filterEntries applying the predicates first and the deduplication to what
\* they leave.
filterEntriesThenDeduplicate(entries, options) ==
  LET filteredEntries == FilterLoop(entries, options, 1, <<>>)
  IN IF filteredEntries.thrown
     THEN [value |-> <<>>, thrown |-> TRUE]
     ELSE IF DeduplicateRequested(options)
          THEN deduplicateEntries(filteredEntries.value)
          ELSE filteredEntries

filterEntries(entries, options) ==
  LET filteredEntries == IF DeduplicateRequested(options)
                         THEN deduplicateEntries(entries)
                         ELSE [value |-> entries, thrown |-> FALSE]
  IN IF filteredEntries.thrown
     THEN [value |-> <<>>, thrown |-> TRUE]
     ELSE FilterLoop(filteredEntries.value, options, 1, <<>>)

(***************************************************************************)
(* generateSummary.  A quotient of two numbers is kept exact, as a         *)
(* fraction in lowest terms.                                               *)
(***************************************************************************)
RECURSIVE Gcd(_, _)
Gcd(a, b) == IF b = 0 THEN a ELSE Gcd(b, a % b)

Divide(a, b) == [num |-> a \div Gcd(a, b), den |-> b \div Gcd(a, b)]

Zero == [num |-> 0, den |-> 1]

\* status.toString(), for the status codes of the model
StatusToString(status) ==
  CASE status = 200 -> "200"
    [] status = 201 -> "201"
    [] status = 404 -> "404"

\* counter[key] after the loop, keys being the key of each entry in turn
Count(keys, key) == Cardinality({i \in DOMAIN keys : keys[i] = key})

RECURSIVE SumTime(_, _)
SumTime(entries, i) ==
  IF i > Len(entries) THEN 0 ELSE entries[i].time + SumTime(entries, i + 1)

\* 0 / 0
NaN == [num |-> 0, den |-> 0]

\* generateSummary dividing by entries.length without the test for an empty
\* array.
generateSummaryUnguarded(entries) ==
  IF \E i \in 1..Len(entries) : UrlThrows(entries[i].request.url)
  THEN [thrown |-> TRUE]
  ELSE LET Method(e) == e.request.method
           Status(e) == StatusToString(e.response.status)
           Domain(e) == Hostname(e.request.url)
           totalDuration == SumTime(entries, 1)
       IN [ thrown |-> FALSE,
            totalRequests |-> Len(entries),
            methods |-> [m \in {Method(entries[i]) : i \in 1..Len(entries)} |->
                           Count([i \in 1..Len(entries) |-> Method(entries[i])], m)],
            statusCodes |-> [c \in {Status(entries[i]) : i \in 1..Len(entries)} |->
                               Count([i \in 1..Len(entries) |-> Status(entries[i])], c)],
            domains |-> [d \in {Domain(entries[i]) : i \in 1..Len(entries)} |->
                           Count([i \in 1..Len(entries) |-> Domain(entries[i])], d)],
            averageDuration |-> IF Len(entries) > 0
                                THEN Divide(totalDuration, Len(entries))
                                ELSE NaN,
            totalDuration |-> totalDuration ]

generateSummary(entries) ==
  IF \E i \in 1..Len(entries) : UrlThrows(entries[i].request.url)
  THEN [thrown |-> TRUE]
  ELSE LET Method(e) == e.request.method
           Status(e) == StatusToString(e.response.status)
           Domain(e) == Hostname(e.request.url)
           totalDuration == SumTime(entries, 1)
       IN [ thrown |-> FALSE,
            totalRequests |-> Len(entries),
            methods |-> [m \in {Method(entries[i]) : i \in 1..Len(entries)} |->
                           Count([i \in 1..Len(entries) |-> Method(entries[i])], m)],
            statusCodes |-> [c \in {Status(entries[i]) : i \in 1..Len(entries)} |->
                               Count([i \in 1..Len(entries) |-> Status(entries[i])], c)],
            domains |-> [d \in {Domain(entries[i]) : i \in 1..Len(entries)} |->
                           Count([i \in 1..Len(entries) |-> Domain(entries[i])], d)],
            averageDuration |-> IF Len(entries) > 0
                                THEN Divide(totalDuration, Len(entries))
                                ELSE Zero,
            totalDuration |-> totalDuration ]


(***************************************************************************)
(* HAR entries of the model.                                               *)
(***************************************************************************)
H(name, value) == [name |-> name, value |-> value]

Entry(time, method, url, headers, queryString, postData, status, mimeType, text) ==
  [ time |-> time,
    request |-> [ method |-> method, url |-> url, headers |-> headers,
                  queryString |-> queryString, postData |-> postData ],
    response |-> [ status |-> status,
                   content |-> [mimeType |-> mimeType, text |-> text] ] ]

PostData(mimeType, text) == [mimeType |-> mimeType, text |-> text]

Url(host, path) == <<"https:", "", host>> \o path

JsonHeaders == <<H("Content-Type", "application/json")>>

\* GET /users/<id> with a JSON response
GetUser(time, id, headers, queryString, text) ==
  Entry(time, "GET", Url("api.example.com", <<"users", id>>), headers, queryString,
        NoPostData, 200, "application/json", text)

\* POST /users with a request body and a response of JSON content type
PostUser(time, postData, text) ==
  Entry(time, "POST", Url("api.example.com", <<"users">>), JsonHeaders, <<>>,
        postData, 201, "application/json", text)

\* The entries deduplicateEntries is run on.
DedupPool ==
  { GetUser(100, "1", <<H("Authorization", "t1"), H("Date", "d1")>>, <<>>, "{\"id\":1}"),
    GetUser(200, "2", <<H("authorization", "t2"), H("Date", "d2")>>, <<>>, "{\"id\":2}"),
    PostUser(100, PostData("application/json", "{\"id\":1,\"name\":\"x\"}"),
             "{\"id\":1,\"name\":\"x\"}"),
    PostUser(100, PostData("application/json", "null"), "null"),
    PostUser(100, PostData("application/json", "not json"), "<html>"),
    PostUser(300, PostData("application/json", "not json"), "<html>"),
    PostUser(100, PostData("application/json", "not json"), "<xml>"),
    PostUser(100, PostData("application/json", ""), ""),
    PostUser(100, NoPostData, Undefined) }

\* The entries removeExactDuplicates is run on.
ExactPool ==
  { GetUser(100, "1", <<H("Authorization", "t1")>>, <<H("page", "1")>>, "{\"id\":1}"),
    GetUser(100, "1", <<H("Authorization", "t1")>>, <<H("page", "2")>>, "{\"id\":1}"),
    GetUser(100, "1", <<H("Authorization", "t1"), H("Date", "d1"), H("ETag", "e1")>>,
            <<H("page", "1")>>, "{\"id\":1}"),
    GetUser(100, "1", <<H("Authorization", "t1"), H("Date", "d2"), H("ETag", "e2")>>,
            <<H("page", "1")>>, "{\"id\":1}"),
    GetUser(100, "2", <<H("Authorization", "t1")>>, <<H("page", "1")>>, "{\"id\":1}"),
    GetUser(100, "1", <<H("Authorization", "t2")>>, <<H("page", "1")>>, "{\"id\":1}"),
    GetUser(100, "1", <<H("Authorization", "t1"), H("Expires", "x1")>>,
            <<H("page", "1")>>, "{\"id\":1}"),
    GetUser(100, "1", <<H("Authorization", "t1"), H("Expires", "x2")>>,
            <<H("page", "1")>>, "{\"id\":1}"),
    PostUser(100, PostData("application/json", "{\"id\":1}"), "{\"id\":1}"),
    PostUser(100, PostData("application/json", "{ \"id\": 1 }"), "{\"id\":1}") }

\* The sequences of at most n elements of S
SeqsUpTo(S, n) == UNION { [1..k -> S] : k \in 0..n }

(***************************************************************************)
(* The state: a call of one operation (op) on the array entries with the   *)
(* options record, the position of the call (pc), the loop variables of    *)
(* deduplicateEntries and removeExactDuplicates, what the calls returned,  *)
(* and the arguments (args) of a call of a function that takes no entries. *)
(***************************************************************************)
VARIABLES entries, options, op, pc, i, seen, deduplicated, result, second, summary,
          args

vars == <<entries, options, op, pc, i, seen, deduplicated, result, second, summary,
          args>>

NoSummary == [thrown |-> FALSE]

NoResult == [value |-> <<>>, thrown |-> FALSE]

\* No pure function is being called.
NoArgs == <<>>

(***************************************************************************)
(* Spec: deduplicateEntries and removeExactDuplicates, one turn of the     *)
(* outer loop at a time; deduplicateEntries is then called on its result.  *)
(***************************************************************************)
Init ==
  /\ op \in {"deduplicateEntries", "removeExactDuplicates"}
  /\ entries \in SeqsUpTo(IF op = "deduplicateEntries" THEN DedupPool ELSE ExactPool,
                          MaxEntries)
  /\ options = <<>>
  /\ pc = "loop"
  /\ i = 1
  /\ seen = <<>>
  /\ deduplicated = <<>>
  /\ result = NoResult
  /\ second = NoResult
  /\ summary = NoSummary
  /\ args = NoArgs

DedupStep ==
  /\ op = "deduplicateEntries"
  /\ pc = "loop"
  /\ i <= Len(entries)
  /\ LET step == DedupIteration(entries, deduplicated, i)
     IN IF step.thrown
        THEN /\ pc' = "returned"
             /\ result' = [value |-> <<>>, thrown |-> TRUE]
             /\ UNCHANGED <<i, deduplicated>>
        ELSE /\ deduplicated' = step.deduplicated
             /\ i' = i + 1
             /\ UNCHANGED <<pc, result>>
  /\ UNCHANGED <<entries, options, op, seen, second, summary, args>>

DedupReturn ==
  /\ op = "deduplicateEntries"
  /\ pc = "loop"
  /\ i > Len(entries)
  /\ pc' = "returned"
  /\ result' = [value |-> Deref(entries, deduplicated), thrown |-> FALSE]
  /\ UNCHANGED <<entries, options, op, i, seen, deduplicated, second, summary, args>>

DedupAgain ==
  /\ op = "deduplicateEntries"
  /\ pc = "returned"
  /\ ~ result.thrown
  /\ pc' = "again"
  /\ second' = deduplicateEntries(result.value)
  /\ UNCHANGED <<entries, options, op, i, seen, deduplicated, result, summary, args>>

ExactStep ==
  /\ op = "removeExactDuplicates"
  /\ pc = "loop"
  /\ i <= Len(entries)
  /\ LET step == ExactIteration(entries, seen, deduplicated, i)
     IN /\ seen' = step.seen
        /\ deduplicated' = step.deduplicated
  /\ i' = i + 1
  /\ UNCHANGED <<entries, options, op, pc, result, second, summary, args>>

ExactReturn ==
  /\ op = "removeExactDuplicates"
  /\ pc = "loop"
  /\ i > Len(entries)
  /\ pc' = "returned"
  /\ result' = [value |-> Deref(entries, deduplicated), thrown |-> FALSE]
  /\ UNCHANGED <<entries, options, op, i, seen, deduplicated, second, summary, args>>

Next == DedupStep \/ DedupReturn \/ DedupAgain \/ ExactStep \/ ExactReturn

Spec == Init /\ [][Next]_vars

(***************************************************************************)
(* SpecCalls: one call of filterEntries, generateSummary,                  *)
(* deduplicateEntries or removeExactDuplicates, with the options of        *)
(* FilterOptions for filterEntries.                                        *)
(***************************************************************************)
\* The entries the calls are made on.  The last one has a relative URL,
\* which new URL(...) rejects.
CallPool ==
  { Entry(100, "GET", Url("api.example.com", <<"users", "1">>), <<>>, <<>>,
          NoPostData, 200, "application/json", "{\"id\":1}"),
    Entry(150, "GET", Url("api.example.com", <<"users", "2">>), <<>>, <<>>,
          NoPostData, 200, "application/json", "{\"id\":2}"),
    Entry(200, "POST", Url("api.other.org", <<"users">>), <<>>, <<>>,
          PostData("application/json", "{\"id\":1}"), 200, "application/json", "{\"id\":1}"),
    Entry(0, "GET", Url("cdn.example.com", <<"users", "1">>), <<>>, <<>>,
          NoPostData, 404, "text/html", "<html>"),
    Entry(100, "POST", <<"", "users", "1">>, <<>>, <<>>,
          NoPostData, 200, "application/json", "{\"id\":1}") }

\* An options object with no keys
NoOptions == <<>>

FilterOptions ==
  { methods @@ statusCodes @@ domains @@ durations @@ dedup :
      methods \in {NoOptions, "methods" :> {"GET"}},
      statusCodes \in {NoOptions, "statusCodes" :> {200}},
      domains \in {NoOptions, "domains" :> {"example.com"},
                   "excludeDomains" :> {"cdn.example.com", "other"}},
      durations \in {NoOptions, "minDuration" :> 150, "maxDuration" :> 150,
                     "maxDuration" :> 0,
                     ("minDuration" :> 0) @@ ("maxDuration" :> 150)},
      dedup \in {NoOptions, "deduplicate" :> FALSE} }

InitCalls ==
  /\ op \in {"filterEntries", "generateSummary", "deduplicateEntries",
            "removeExactDuplicates"}
  /\ entries \in SeqsUpTo(CallPool, MaxEntries)
  /\ options \in IF op = "filterEntries" THEN FilterOptions ELSE {NoOptions}
  /\ pc = "call"
  /\ i = 1
  /\ seen = <<>>
  /\ deduplicated = <<>>
  /\ result = NoResult
  /\ second = NoResult
  /\ summary = NoSummary
  /\ args = NoArgs

Return(value) ==
  /\ pc = "call"
  /\ pc' = "returned"
  /\ result' = value
  /\ UNCHANGED <<entries, options, op, i, seen, deduplicated, second, args>>

CallFilterEntries ==
  /\ op = "filterEntries"
  /\ Return(filterEntries(entries, options))
  /\ UNCHANGED summary

CallGenerateSummary ==
  /\ op = "generateSummary"
  /\ Return(NoResult)
  /\ summary' = generateSummary(entries)

CallDeduplicateEntries ==
  /\ op = "deduplicateEntries"
  /\ Return(deduplicateEntries(entries))
  /\ UNCHANGED summary

CallRemoveExactDuplicates ==
  /\ op = "removeExactDuplicates"
  /\ Return([value |-> removeExactDuplicates(entries), thrown |-> FALSE])
  /\ UNCHANGED summary

NextCalls ==
  \/ CallFilterEntries
  \/ CallGenerateSummary
  \/ CallDeduplicateEntries
  \/ CallRemoveExactDuplicates

SpecCalls == InitCalls /\ [][NextCalls]_vars

(***************************************************************************)
(* SpecCli: the action of the command line, from "Apply filters" to the    *)
(* deduplication.  options holds the options commander parsed: a string    *)
(* for each filter option given, and deduplicate, which is true unless     *)
(* --no-deduplicate is given.  result holds filteredEntries.  An exception *)
(* reaches the catch block, which exits: pc is then "error".               *)
(***************************************************************************)
\* text.split(',').map(m => m.trim().toUpperCase())
SplitUpperCase(text) ==
  CASE text = "get" -> {"GET"}
    [] text = "GET, post" -> {"GET", "POST"}

\* text.split(',').map(s => parseInt(s.trim()))
SplitParseInt(text) ==
  CASE text = "200" -> {200}
    [] text = "200,404" -> {200, 404}

\* text.split(',').map(d => d.trim())
SplitTrim(text) ==
  CASE text = "example.com" -> {"example.com"}
    [] text = "cdn.example.com, other" -> {"cdn.example.com", "other"}

\* parseInt(text)
ParseInt(text) ==
  CASE text = "0" -> 0
    [] text = "150" -> 150

CliOptions ==
  { methods @@ status @@ domains @@ minDuration @@ maxDuration @@ dedup :
      methods \in {NoOptions, "methods" :> "get"},
      status \in {NoOptions, "status" :> "200,404"},
      domains \in {NoOptions, "domains" :> "example.com",
                   "excludeDomains" :> "cdn.example.com, other"},
      minDuration \in {NoOptions, "minDuration" :> "150"},
      maxDuration \in {NoOptions, "maxDuration" :> "150", "maxDuration" :> "0"},
      dedup \in {"deduplicate" :> TRUE, "deduplicate" :> FALSE} }

InitCli ==
  /\ op = "cli"
  /\ entries \in SeqsUpTo(CallPool, MaxEntries)
  /\ options \in CliOptions
  /\ pc = "methods"
  /\ i = 1
  /\ seen = <<>>
  /\ deduplicated = <<>>
  /\ result = [value |-> entries, thrown |-> FALSE]
  /\ second = NoResult
  /\ summary = NoSummary
  /\ args = NoArgs

\* The "if (options.x)" blocks of the action, in the order of the code,
\* and last the "if (shouldDeduplicate)" block.
CliStages ==
  <<"methods", "status", "domains", "excludeDomains", "minDuration",
    "maxDuration", "deduplicate">>

\* The condition of a block; shouldDeduplicate = options.deduplicate !== false.
CliGiven(stage) ==
  IF stage = "deduplicate" THEN options.deduplicate # FALSE
                           ELSE Has(options, stage)

\* The options object a block passes to filterEntries.
CliStageOptions(stage) ==
  CASE stage = "methods" -> "methods" :> SplitUpperCase(options.methods)
    [] stage = "status" -> "statusCodes" :> SplitParseInt(options.status)
    [] stage = "domains" -> "domains" :> SplitTrim(options.domains)
    [] stage = "excludeDomains" ->
         "excludeDomains" :> SplitTrim(options.excludeDomains)
    [] stage = "minDuration" -> "minDuration" :> ParseInt(options.minDuration)
    [] stage = "maxDuration" -> "maxDuration" :> ParseInt(options.maxDuration)
    [] stage = "deduplicate" -> "deduplicate" :> TRUE

\* The block after a block, "done" after the last one.
CliNextStage(stage) ==
  LET n == CHOOSE m \in 1..Len(CliStages) : CliStages[m] = stage
  IN  IF n = Len(CliStages) THEN "done" ELSE CliStages[n + 1]

\* One block: "if (options.x) { filteredEntries = HARConverter.filterEntries(
\* filteredEntries, {x: ...}) }".  pc is the block the action is at; an
\* exception leaves the action for its catch block.
CliStep ==
  /\ op = "cli"
  /\ pc \in { CliStages[n] : n \in 1..Len(CliStages) }
  /\ \E filteredEntries \in {result.value} :
     \E filterOptions \in {IF CliGiven(pc) THEN CliStageOptions(pc) ELSE NoOptions} :
     \E filtered \in {IF CliGiven(pc)
                      THEN filterEntries(filteredEntries, filterOptions)
                      ELSE result} :
       /\ result' = filtered
       /\ pc' = IF filtered.thrown THEN "error" ELSE CliNextStage(pc)
  /\ UNCHANGED <<entries, options, op, i, seen, deduplicated, second, summary, args>>

NextCli == CliStep

SpecCli == InitCli /\ [][NextCli]_vars

(***************************************************************************)
(* SpecFunctions: one call of a function of the converter on arguments of  *)
(* the model.  args holds a URL or JSON texts, which the call parses;      *)
(* entries holds the two entries a comparison is called on.  normalizeUrl  *)
(* and normalizeJsonStructure are then called on their own result.         *)
(***************************************************************************)
UrlPool ==
  { Url("api.example.com", <<"users", "12345", "orders">>),
    Url("api.example.com", <<"users", "550e8400-e29b-41d4-a716-446655440000">>),
    Url("api.example.com", <<"users", "550E8400-E29B-41D4-A716-446655440001", "">>),
    Url("api.example.com", <<"users", "me">>),
    Url("api.example.com", <<"users", "1?page=2">>),
    Url("api.example.com", <<"users", "1", "">>),
    Url("api.example.com", <<"a", "1", "2", "3">>),
    Url("api.example.com", <<"a", "1", "2">>),
    Url("api.example.com", <<"a", "1", "b", "2">>),
    Url("api.example.com", <<"a", "42", "550e8400-e29b-41d4-a716-446655440000", "3">>),
    Url("api.example.com", <<"files", "507f1f77bcf86cd799439011">>),
    Url("api.example.com", <<"files", "abcdefghijklmnopqrstuvwx">>),
    Url("api.example.com", <<"files", "123456789012345678901234">>),
    Url("api.example.com", <<"files", "d41d8cd98f00b204e9800998ecf8427e", "raw">>),
    Url("api.example.com", <<"files", "ghijklmnopqrstuvwxyzghijklmnopqr">>),
    <<"", "users", "1">> }

\* The request of the entries the comparisons are called on.
PairRequest(id, headers, queryString, requestText, status, mimeType, text) ==
  Entry(100, "GET", Url("api.example.com", <<"users", id>>), JsonHeaders \o headers,
        queryString, PostData("application/json", requestText), status, mimeType, text)

\* An entry with a JSON request body and a JSON response of the same text.
PairJson(id, headers, queryString, text) ==
  PairRequest(id, headers, queryString, text, 200, "application/json", text)

\* An entry with the request of PairJson("1", <<>>, <<>>, "{\"id\":1}") and the
\* given response.
PairResponse(status, mimeType, text) ==
  PairRequest("1", <<>>, <<>>, "{\"id\":1}", status, mimeType, text)

PairPool ==
  { PairJson("1", <<>>, <<>>, "{\"id\":1,\"name\":\"x\"}"),
    PairJson("2", <<>>, <<>>, "{\"id\":2,\"name\":\"y\"}"),
    PairJson("1", <<>>, <<>>, "{\"id\":1}"),
    PairJson("1", <<>>, <<>>, "null"),
    PairJson("1", <<>>, <<H("page", "1")>>, "{\"id\":1}"),
    PairJson("1", <<>>, <<H("page", "2")>>, "{\"id\":1}"),
    PairJson("1", <<>>, <<H("limit", "1")>>, "{\"id\":1}"),
    PairJson("1", <<H("Authorization", "t1")>>, <<>>, "{\"id\":1}"),
    PairJson("1", <<H("Authorization", "t2")>>, <<>>, "{\"id\":1}"),
    PairJson("1", <<H("X-Api-Key", "k1")>>, <<>>, "{\"id\":1}"),
    PairJson("1", <<H("Date", "d1")>>, <<>>, "{\"id\":1}"),
    PairJson("1", <<H("Expires", "x1")>>, <<>>, "{\"id\":1}"),
    PairJson("1", <<H("Expires", "x2")>>, <<>>, "{\"id\":1}"),
    Entry(100, "POST", Url("api.example.com", <<"users", "1">>), JsonHeaders, <<>>,
          PostData("application/json", "{\"id\":1}"), 200, "application/json",
          "{\"id\":1}"),
    PairJson("me", <<>>, <<>>, "{\"id\":1}"),
    PairResponse(404, "application/json", "{\"id\":1}"),
    PairResponse(200, "text/html", "ok"),
    PairResponse(200, "text/plain", "ok"),
    PairResponse(200, "text/html", "other"),
    PairResponse(404, "text/html", "ok"),
    PairResponse(200, "", "ok"),
    PairResponse(200, Undefined, "ok"),
    PairResponse(200, "text/html", Undefined),
    PairResponse(200, Undefined, Undefined) }

FunctionsOfUrl == {"normalizeUrl"}

FunctionsOfJson == {"getStructureKey", "normalizeJsonStructure"}

FunctionsOfTwoJson == {"areJsonStructuresSimilar"}

FunctionsOfTwoEntries ==
  {"areRequestsSemanticallySimilar", "areResponsesSemanticallySimilar",
   "areRequestsEqual", "deduplicateEntries"}

InitFunctions ==
  /\ op \in FunctionsOfUrl \cup FunctionsOfJson \cup FunctionsOfTwoJson
              \cup FunctionsOfTwoEntries
  /\ args \in CASE op \in FunctionsOfUrl -> { <<url>> : url \in UrlPool }
                [] op \in FunctionsOfJson -> { <<text>> : text \in DOMAIN JsonTexts }
                [] op \in FunctionsOfTwoJson -> (DOMAIN JsonTexts) \X (DOMAIN JsonTexts)
                [] OTHER -> {NoArgs}
  /\ entries \in IF op \in FunctionsOfTwoEntries THEN [1..2 -> PairPool] ELSE {<<>>}
  /\ options = NoOptions
  /\ pc = "call"
  /\ i = 1
  /\ seen = <<>>
  /\ deduplicated = <<>>
  /\ result = NoResult
  /\ second = NoResult
  /\ summary = NoSummary

\* The value a comparison gives, or the exception it raises.
Outcome(r) == [value |-> r = "true", thrown |-> r = "throw"]

CallNormalizeUrl ==
  /\ op = "normalizeUrl"
  /\ \E url \in {args[1]} :
       Return([value |-> normalizeUrl(url), thrown |-> FALSE])
  /\ UNCHANGED summary

\* normalizeUrl called on the URL it returned
CallNormalizeUrlAgain ==
  /\ op = "normalizeUrl"
  /\ pc = "returned"
  /\ pc' = "again"
  /\ \E url \in {result.value} :
       second' = [value |-> normalizeUrl(url), thrown |-> FALSE]
  /\ UNCHANGED <<entries, options, op, i, seen, deduplicated, result, summary, args>>

CallGetStructureKey ==
  /\ op = "getStructureKey"
  /\ \E obj \in {JsonParse(args[1])} :
       Return([value |-> getStructureKey(obj), thrown |-> FALSE])
  /\ UNCHANGED summary

CallNormalizeJsonStructure ==
  /\ op = "normalizeJsonStructure"
  /\ \E obj \in {JsonParse(args[1])} :
       Return([value |-> normalizeJsonStructure(obj), thrown |-> FALSE])
  /\ UNCHANGED summary

\* normalizeJsonStructure called on the value it returned
CallNormalizeJsonStructureAgain ==
  /\ op = "normalizeJsonStructure"
  /\ pc = "returned"
  /\ pc' = "again"
  /\ \E obj \in {result.value} :
       second' = [value |-> normalizeJsonStructure(obj), thrown |-> FALSE]
  /\ UNCHANGED <<entries, options, op, i, seen, deduplicated, result, summary, args>>

CallAreJsonStructuresSimilar ==
  /\ op = "areJsonStructuresSimilar"
  /\ \E obj1 \in {JsonParse(args[1])} : \E obj2 \in {JsonParse(args[2])} :
       Return(Outcome(areJsonStructuresSimilar(obj1, obj2)))
  /\ UNCHANGED summary

CallAreRequestsSemanticallySimilar ==
  /\ op = "areRequestsSemanticallySimilar"
  /\ \E sig1 \in {createSemanticSignature(entries[1])} :
     \E sig2 \in {createSemanticSignature(entries[2])} :
       Return(Outcome(areRequestsSemanticallySimilar(sig1, sig2)))
  /\ UNCHANGED summary

CallAreResponsesSemanticallySimilar ==
  /\ op = "areResponsesSemanticallySimilar"
  /\ \E entry1 \in {entries[1]} : \E entry2 \in {entries[2]} :
       Return(Outcome(areResponsesSemanticallySimilar(entry1, entry2)))
  /\ UNCHANGED summary

CallAreRequestsEqual ==
  /\ op = "areRequestsEqual"
  /\ \E sig1 \in {createRequestSignature(entries[1])} :
     \E sig2 \in {createRequestSignature(entries[2])} :
       Return(Outcome(areRequestsEqual(sig1, sig2)))
  /\ UNCHANGED summary

NextFunctions ==
  \/ CallNormalizeUrl
  \/ CallNormalizeUrlAgain
  \/ CallGetStructureKey
  \/ CallNormalizeJsonStructure
  \/ CallNormalizeJsonStructureAgain
  \/ CallAreJsonStructuresSimilar
  \/ CallAreRequestsSemanticallySimilar
  \/ CallAreResponsesSemanticallySimilar
  \/ CallAreRequestsEqual
  \/ CallDeduplicateEntries

SpecFunctions == InitFunctions /\ [][NextFunctions]_vars

(***************************************************************************)
(* Definitions the properties are stated with.                             *)
(***************************************************************************)
Range(f) == {f[k] : k \in DOMAIN f}

\* s is t with some elements left out
RECURSIVE IsSubsequence(_, _)
IsSubsequence(s, t) ==
  IF Len(s) = 0 THEN TRUE
  ELSE IF Len(t) = 0 THEN FALSE
  ELSE IF Head(s) = Head(t)
       THEN IsSubsequence(Tail(s), Tail(t)) \/ IsSubsequence(s, Tail(t))
       ELSE IsSubsequence(s, Tail(t))

StrictlyIncreasing(positions) ==
  \A k \in 1..Len(positions) - 1 : positions[k] < positions[k + 1]

InLoop == pc = "loop"

LoopDone == pc = "loop" /\ i > Len(entries)

\* C1: deduplicateEntries called on the result of deduplicateEntries returns
\* that result: the same entries in the same order.
C1_DedupIdempotent ==
  (op = "deduplicateEntries" /\ pc = "again") => second = result

C1_Witness ==
  /\ op = "deduplicateEntries"
  /\ pc = "again"
  /\ Len(result.value) >= 2
  /\ Len(result.value) < Len(entries)

\* C2: in deduplicateEntries and in removeExactDuplicates the kept list is,
\* after every turn of the loop, a subsequence of the entries processed so
\* far: positions of the input below i, each at most once, in increasing
\* order; and the array returned is a subsequence of the input.
C2_KeptIsSubsequence ==
  /\ InLoop => /\ Range(deduplicated) \subseteq 1..(i - 1)
               /\ StrictlyIncreasing(deduplicated)
               /\ IsSubsequence(Deref(entries, deduplicated), SubSeq(entries, 1, i - 1))
  /\ pc = "returned" => IsSubsequence(result.value, entries)

C2_Witness ==
  /\ LoopDone
  /\ Len(entries) = 3
  /\ deduplicated = <<1, 3>>

\* The two predicates of deduplicateEntries on a later and an earlier entry.
RequestSimilar(entry, earlier) ==
  areRequestsSemanticallySimilar(createSemanticSignature(entry),
                                 createSemanticSignature(earlier)) = "true"

ResponseSimilar(entry, earlier) ==
  areResponsesSemanticallySimilar(entry, earlier) = "true"

\* C3: in deduplicateEntries every processed entry is kept if and only if no
\* entry kept before it is request-similar and response-similar to it; the
\* first entry is kept.
C3_KeptIffNoSimilarKept ==
  (op = "deduplicateEntries" /\ InLoop) =>
    /\ \A j \in 1..(i - 1) :
         j \in Range(deduplicated) <=>
           ~ \E k \in Range(deduplicated) :
               /\ k < j
               /\ RequestSimilar(entries[j], entries[k])
               /\ ResponseSimilar(entries[j], entries[k])
    /\ i > 1 => deduplicated[1] = 1

\* An entry is dropped, and an entry similar in request only to a kept entry
\* is kept.
C3_Witness ==
  /\ op = "deduplicateEntries"
  /\ LoopDone
  /\ \E j \in 1..Len(entries) : j \notin Range(deduplicated)
  /\ \E j, k \in Range(deduplicated) :
       /\ k < j
       /\ RequestSimilar(entries[j], entries[k])
       /\ ~ ResponseSimilar(entries[j], entries[k])

\* The request signature of the claim: method, raw URL, the query parameter
\* map, the header map without the volatile and the dynamic headers, and the
\* body text.
StaticHeaderMap(entry) ==
  LET headers == HeaderObject(entry.request.headers)
  IN [key \in DOMAIN headers \ (uselessHeaders \cup dynamicHeaders) |-> headers[key]]

IdenticalSignature(entry1, entry2) ==
  /\ entry1.request.method = entry2.request.method
  /\ entry1.request.url = entry2.request.url
  /\ QueryObject(entry1.request.queryString) = QueryObject(entry2.request.queryString)
  /\ StaticHeaderMap(entry1) = StaticHeaderMap(entry2)
  /\ convertRequest(entry1.request).body = convertRequest(entry2.request).body

\* The headers of the two entries differ, and only in the values of date and
\* etag.
DifferOnlyInDateAndEtag(entry1, entry2) ==
  /\ entry1.request.headers # entry2.request.headers
  /\ [entry1 EXCEPT !.request.headers = <<>>] = [entry2 EXCEPT !.request.headers = <<>>]
  /\ Len(entry1.request.headers) = Len(entry2.request.headers)
  /\ \A k \in 1..Len(entry1.request.headers) :
       /\ entry1.request.headers[k].name = entry2.request.headers[k].name
       /\ \/ entry1.request.headers[k].value = entry2.request.headers[k].value
          \/ ToLowerCase(entry1.request.headers[k].name) \in {"date", "etag"}

\* C4: in removeExactDuplicates every processed entry is kept if and only if
\* no entry kept before it has an identical request signature; two entries
\* that differ only in the values of date and etag headers are never both
\* kept.
C4_KeptIffNoIdenticalSignature ==
  (op = "removeExactDuplicates" /\ InLoop) =>
    /\ \A j \in 1..(i - 1) :
         j \in Range(deduplicated) <=>
           ~ \E k \in Range(deduplicated) :
               k < j /\ IdenticalSignature(entries[j], entries[k])
    /\ \A j, k \in Range(deduplicated) :
         j # k => ~ DifferOnlyInDateAndEtag(entries[j], entries[k])

\* An entry that differs from the first one only in date and etag values is
\* dropped, and one that differs in a query parameter value is kept.
C4_Witness ==
  /\ op = "removeExactDuplicates"
  /\ LoopDone
  /\ Len(entries) = 3
  /\ deduplicated = <<1, 3>>
  /\ DifferOnlyInDateAndEtag(entries[2], entries[1])
  /\ DOMAIN QueryObject(entries[3].request.queryString)
       = DOMAIN QueryObject(entries[1].request.queryString)
  /\ DOMAIN QueryObject(entries[1].request.queryString) # {}


\* A body text JSON.parse rejects; the empty text is one.
FailsToParse(text) == text # Undefined /\ ParseThrows(text)

RequestBody(entry) == convertRequest(entry.request).body

ResponseText(entry) == entry.response.content.text

\* The two responses reach the JSON branch of areResponsesSemanticallySimilar.
BothJsonResponses(entry1, entry2) ==
  /\ entry1.response.status = entry2.response.status
  /\ HasJson(entry1.response) = "true"
  /\ HasJson(entry2.response) = "true"

\* The pairs of a processed entry and an entry kept before it: the pairs the
\* inner loop of deduplicateEntries compares, up to its break.
ComparedPairs ==
  { pair \in (1..(i - 1)) \X Range(deduplicated) : pair[2] < pair[1] }

Returned(operation) == op = operation /\ pc = "returned"

AllUrlsParse == \A k \in 1..Len(entries) : ~ UrlThrows(entries[k].request.url)

\* The predicates of the options, each one applying only if its option is
\* given: the entry passes all of them.
SatisfiesAll(entry, opts) ==
  /\ Has(opts, "methods") => entry.request.method \in opts.methods
  /\ Has(opts, "statusCodes") => entry.response.status \in opts.statusCodes
  /\ Has(opts, "domains") =>
       \E d \in opts.domains : Includes(Hostname(entry.request.url), d)
  /\ Has(opts, "excludeDomains") =>
       ~ \E d \in opts.excludeDomains : Includes(Hostname(entry.request.url), d)
  /\ Has(opts, "minDuration") => opts.minDuration <= entry.time
  /\ Has(opts, "maxDuration") => entry.time <= opts.maxDuration

\* C5 as claimed: with deduplicate not false, filterEntries returns exactly
\* the entries of deduplicateEntries(entries), in order, that satisfy every
\* predicate given in the options (the URLs of the input being absolute).
C5_FilterIsDedupThenAllPredicates ==
  (Returned("filterEntries") /\ DeduplicateRequested(options) /\ AllUrlsParse) =>
    /\ ~ result.thrown
    /\ result.value = SelectSeq(deduplicateEntries(entries).value,
                                LAMBDA e : SatisfiesAll(e, options))

\* C6 as claimed: every entry filterEntries returns has its time within the
\* bounds given, 0 included, and an entry on a bound that passes the other
\* predicates is returned.
C6_DurationWithinBounds ==
  (Returned("filterEntries") /\ ~ result.thrown) =>
    /\ \A k \in 1..Len(result.value) :
         /\ Has(options, "minDuration") => options.minDuration <= result.value[k].time
         /\ Has(options, "maxDuration") => result.value[k].time <= options.maxDuration
    /\ (~ DeduplicateRequested(options) /\ AllUrlsParse) =>
         \A k \in 1..Len(entries) :
           ( /\ SatisfiesAll(entries[k], options)
             /\ \/ Has(options, "minDuration") /\ entries[k].time = options.minDuration
                \/ Has(options, "maxDuration") /\ entries[k].time = options.maxDuration )
           => entries[k] \in Range(result.value)

\* The sum of the times, from the last entry to the first.
RECURSIVE TotalTime(_)
TotalTime(es) ==
  IF Len(es) = 0 THEN 0 ELSE TotalTime(SubSeq(es, 1, Len(es) - 1)) + es[Len(es)].time

RECURSIVE SumOver(_, _)
SumOver(f, S) ==
  IF S = {} THEN 0
  ELSE LET x == CHOOSE x \in S : TRUE IN f[x] + SumOver(f, S \ {x})

\* C8: generateSummary, when it returns, reports the number of entries, the
\* sum of their times and, as the average, that sum divided by that number;
\* for an empty input it returns no counts, a total of 0 and an average of
\* 0, and deduplicateEntries, removeExactDuplicates and filterEntries return
\* an empty array.
C8_SummaryTotals ==
  /\ (Returned("generateSummary") /\ ~ summary.thrown) =>
       /\ summary.totalRequests = Len(entries)
       /\ summary.totalDuration = TotalTime(entries)
       /\ summary.averageDuration.den > 0
       /\ summary.averageDuration.num * Len(entries)
            = summary.totalDuration * summary.averageDuration.den
       /\ Len(entries) = 0 => summary.averageDuration = Zero
       /\ SumOver(summary.methods, DOMAIN summary.methods) = Len(entries)
       /\ SumOver(summary.statusCodes, DOMAIN summary.statusCodes) = Len(entries)
       /\ SumOver(summary.domains, DOMAIN summary.domains) = Len(entries)
  /\ (Returned("generateSummary") /\ AllUrlsParse) => ~ summary.thrown
  /\ (pc = "returned" /\ Len(entries) = 0 /\ op # "generateSummary") =>
       result = [value |-> <<>>, thrown |-> FALSE]

\* The summary of three entries whose times do not divide evenly.
C8_Witness ==
  /\ Returned("generateSummary")
  /\ ~ summary.thrown
  /\ Len(entries) = 3
  /\ summary.totalDuration = 350
  /\ summary.averageDuration = [num |-> 350, den |-> 3]

\* generateSummary([]) has returned.
C8_WitnessEmpty ==
  /\ Returned("generateSummary")
  /\ Len(entries) = 0
  /\ summary.averageDuration = Zero

\* C9 as claimed: when the URL of some entry of the input does not parse,
\* filterEntries and generateSummary fail, whatever the options.
C9_InvalidUrlFails ==
  ~ AllUrlsParse =>
    /\ Returned("filterEntries") => result.thrown
    /\ Returned("generateSummary") => summary.thrown


\* The objects the filter options given on the command line pass to
\* filterEntries.
CliFilterOptions ==
  { CliStageOptions(CliStages[n]) :
      n \in { m \in 1..(Len(CliStages) - 1) : CliGiven(CliStages[m]) } }

\* C7 as claimed: with --no-deduplicate the command line's filterEntries
\* calls yield exactly the input entries that pass the filter of every
\* option given, whatever the options.
C7_NoDeduplicateKeepsDuplicates ==
  (op = "cli" /\ pc = "done" /\ options.deduplicate = FALSE) =>
    result.value = SelectSeq(entries,
                             LAMBDA e : \A o \in CliFilterOptions : Keep(e, o) = "true")

(***************************************************************************)
(* normalizeUrl                                                            *)
(***************************************************************************)
\* normalizeUrl(args[1]) has returned result.value.
NormalizeUrlReturned == op = "normalizeUrl" /\ pc \in {"returned", "again"}

\* The positions of the path segments among the pieces of a URL: after the
\* scheme, the empty piece and the host of an absolute URL, after the empty
\* first piece of a path.
PathSegments(url) == IF UrlThrows(url) THEN 2..Len(url) ELSE 4..Len(url)

\* C11 as claimed: normalizeUrl leaves the number of pieces, and so the "/"
\* delimiters and a trailing slash, as they are, and replaces every path
\* segment that is a run of digits by {id} and every path segment that is a
\* UUID by {uuid}, consecutive ones included.
C11_EveryIdSegmentReplaced ==
  NormalizeUrlReturned =>
    /\ Len(result.value) = Len(args[1])
    /\ \A k \in PathSegments(args[1]) :
         /\ IsNumeric(args[1][k]) => result.value[k] = "{id}"
         /\ IsUuid(args[1][k]) => result.value[k] = "{uuid}"

\* A piece of 24 hexadecimal digits, among the pieces of the model
IsHex24(piece) ==
  piece \in {"507f1f77bcf86cd799439011", "123456789012345678901234"}

\* A piece of 32 hexadecimal digits, among the pieces of the model
IsHex32(piece) == piece \in {"d41d8cd98f00b204e9800998ecf8427e"}

\* C12 as claimed: normalizeUrl leaves unchanged every path segment that is
\* neither a run of digits, nor a UUID, nor 24 or 32 hexadecimal digits.
C12_OnlyIdentifierSegmentsRewritten ==
  NormalizeUrlReturned =>
    \A k \in PathSegments(args[1]) \cap DOMAIN result.value :
      ~ ( \/ IsNumeric(args[1][k])
          \/ IsUuid(args[1][k])
          \/ IsHex24(args[1][k])
          \/ IsHex32(args[1][k]) )
        => result.value[k] = args[1][k]

(***************************************************************************)
(* areJsonStructuresSimilar, getStructureKey, normalizeJsonStructure       *)
(***************************************************************************)
\* The JSON type of a value: object, array, string, number, boolean or null
JsonType(v) == v.t

\* C13 as claimed: areJsonStructuresSimilar raises no error, and it gives
\* false for two values of different JSON types, in either order.
C13_TypeMismatchIsFalse ==
  (op = "areJsonStructuresSimilar" /\ pc = "returned") =>
    /\ ~ result.thrown
    /\ JsonType(JsonParse(args[1])) # JsonType(JsonParse(args[2])) => ~ result.value

\* The keys of an object, as a set
KeySet(o) == Range(Keys(o))

\* b is a with the keys of its objects in another order and with leaf values
\* replaced by values of the same JSON type.
RECURSIVE SameUpToKeyOrderAndLeaves(_, _)
SameUpToKeyOrderAndLeaves(a, b) ==
  /\ JsonType(a) = JsonType(b)
  /\ JsonType(a) = "array" =>
       /\ Len(a.e) = Len(b.e)
       /\ \A k \in 1..Len(a.e) : SameUpToKeyOrderAndLeaves(a.e[k], b.e[k])
  /\ JsonType(a) = "object" =>
       /\ KeySet(a) = KeySet(b)
       /\ \A key \in KeySet(a) : SameUpToKeyOrderAndLeaves(a.f[key], b.f[key])

\* C14: getStructureKey gives the same key for two values that differ in the
\* order of object keys and in leaf values of the same JSON type, and
\* areJsonStructuresSimilar gives true for them; areJsonStructuresSimilar
\* gives false for two objects whose key sets differ.
C14_ShapeKeyInvariance ==
  /\ (op = "getStructureKey" /\ pc = "returned") =>
       \A text \in DOMAIN JsonTexts :
         SameUpToKeyOrderAndLeaves(JsonParse(args[1]), JsonParse(text))
           => getStructureKey(JsonParse(text)) = result.value
  /\ (op = "areJsonStructuresSimilar" /\ pc = "returned") =>
       LET a == JsonParse(args[1])
           b == JsonParse(args[2])
       IN /\ SameUpToKeyOrderAndLeaves(a, b) => (result.value /\ ~ result.thrown)
          /\ ( /\ JsonType(a) = "object"
               /\ JsonType(b) = "object"
               /\ KeySet(a) # KeySet(b) ) => (~ result.value /\ ~ result.thrown)

\* getStructureKey has returned {id,name} for an object whose text has a
\* counterpart with the keys in the other order and other leaf values.
C14_Witness ==
  /\ op = "getStructureKey"
  /\ pc = "returned"
  /\ JsonType(JsonParse(args[1])) = "object"
  /\ Keys(JsonParse(args[1])) = <<"name", "id">>
  /\ result.value = [k |-> "{_}", keys |-> <<"id", "name">>]
  /\ \E text \in DOMAIN JsonTexts :
       /\ SameUpToKeyOrderAndLeaves(JsonParse(args[1]), JsonParse(text))
       /\ Keys(JsonParse(text)) = <<"id", "name">>
       /\ JsonParse(text).f # JsonParse(args[1]).f

(***************************************************************************)
(* The comparisons of two entries                                          *)
(***************************************************************************)
\* The comparison named has returned for entries[1] and entries[2].
Compared(comparison) == op = comparison /\ pc = "returned"

\* The names of the request headers of an entry, in lower case, without the
\* volatile ones.
NonVolatileHeaderNames(entry) ==
  { ToLowerCase(entry.request.headers[n].name) :
      n \in 1..Len(entry.request.headers) } \ uselessHeaders

\* The names of the query parameters of an entry
QueryParameterNames(entry) ==
  { entry.request.queryString[n].name : n \in 1..Len(entry.request.queryString) }

\* C15 as claimed: two entries that areRequestsEqual finds equal are
\* request-similar and response-similar.
C15_ExactDuplicatesAreStructuralDuplicates ==
  (Compared("areRequestsEqual") /\ result.value) =>
    /\ RequestSimilar(entries[1], entries[2])
    /\ ResponseSimilar(entries[1], entries[2])

\* C15, amended: two entries that areRequestsEqual finds equal are
\* request-similar exactly when their non-volatile header names are the
\* same, and these differ at most in the expires header; nothing follows for
\* their responses.
C15_ExactDuplicatesAreRequestSimilar ==
  (Compared("areRequestsEqual") /\ result.value) =>
    LET names1 == NonVolatileHeaderNames(entries[1])
        names2 == NonVolatileHeaderNames(entries[2])
    IN /\ ~ result.thrown
       /\ RequestSimilar(entries[1], entries[2]) <=> names1 = names2
       /\ (names1 \ names2) \cup (names2 \ names1) \subseteq {"expires"}

\* Two entries whose requests differ in a header are found equal by
\* areRequestsEqual; they are request-similar, and their responses are not
\* similar.
C15_Witness ==
  /\ Compared("areRequestsEqual")
  /\ result.value
  /\ entries[1].request.headers # entries[2].request.headers
  /\ RequestSimilar(entries[1], entries[2])
  /\ \E other \in PairPool :
       /\ other.request = entries[1].request
       /\ ~ ResponseSimilar(other, entries[2])

\* The response of an entry has a JSON content type.
HasJsonContentType(entry) ==
  /\ entry.response.content.mimeType # Undefined
  /\ IncludesJson(entry.response.content.mimeType)

\* C16 as claimed: two responses of which neither has a JSON content type
\* are similar exactly when their status codes are equal and their texts are
\* equal, a missing text being equal to a missing text, whatever the MIME
\* types are.
C16_NonJsonResponsesCompareByText ==
  ( /\ Compared("areResponsesSemanticallySimilar")
    /\ ~ HasJsonContentType(entries[1])
    /\ ~ HasJsonContentType(entries[2]) ) =>
    /\ ~ result.thrown
    /\ result.value <=>
         /\ entries[1].response.status = entries[2].response.status
         /\ ResponseText(entries[1]) = ResponseText(entries[2])

\* The entries of the structural deduplication scenario: GET /users/1 and
\* GET /users/2 with JSON request and response bodies of the same shape.
ScenarioA == PairJson("1", <<>>, <<>>, "{\"id\":1,\"name\":\"x\"}")

ScenarioB == PairJson("2", <<>>, <<>>, "{\"id\":2,\"name\":\"y\"}")

\* C17: two entries are request-similar exactly when their methods are
\* equal, their normalized URLs are equal, their bodies are similar, the
\* names of their query parameters are the same and the names of their
\* non-volatile headers are the same, whatever the values of the parameters
\* and of the headers; and deduplicateEntries keeps only the first of the two
\* entries of the scenario.
C17_RequestSimilarityByNameSets ==
  /\ Compared("areRequestsSemanticallySimilar") =>
       /\ ~ result.thrown
       /\ result.value <=>
            /\ entries[1].request.method = entries[2].request.method
            /\ normalizeUrl(entries[1].request.url) = normalizeUrl(entries[2].request.url)
            /\ areBodiesSimilar(RequestBody(entries[1]), RequestBody(entries[2])) = "true"
            /\ QueryParameterNames(entries[1]) = QueryParameterNames(entries[2])
            /\ NonVolatileHeaderNames(entries[1]) = NonVolatileHeaderNames(entries[2])
  /\ (Compared("deduplicateEntries") /\ entries = <<ScenarioA, ScenarioB>>) =>
       result = [value |-> <<ScenarioA>>, thrown |-> FALSE]

\* Two entries whose query parameters have the same names and other values
\* are found request-similar.
C17_Witness ==
  /\ Compared("areRequestsSemanticallySimilar")
  /\ result.value
  /\ QueryParameterNames(entries[1]) = QueryParameterNames(entries[2])
  /\ QueryObject(entries[1].request.queryString)
       # QueryObject(entries[2].request.queryString)

\* The positions of the elements of an array that are the first of their
\* structure key, in order.
FirstOccurrences(arr) ==
  SelectSeq([k \in 1..Len(arr) |-> k],
            LAMBDA k : \A j \in 1..(k - 1) :
                         getStructureKey(arr[j]) # getStructureKey(arr[k]))

\* out is obj with every array, at every depth, cut down to the elements
\* that are the first of their structure key, and nothing else changed.
RECURSIVE IsFirstOccurrencesOf(_, _)
IsFirstOccurrencesOf(out, obj) ==
  /\ JsonType(out) = JsonType(obj)
  /\ JsonType(obj) \notin {"array", "object"} => out = obj
  /\ JsonType(obj) = "object" =>
       /\ Keys(out) = Keys(obj)
       /\ \A key \in KeySet(obj) : IsFirstOccurrencesOf(out.f[key], obj.f[key])
  /\ JsonType(obj) = "array" =>
       /\ Len(out.e) = Len(FirstOccurrences(obj.e))
       /\ \A n \in 1..Len(out.e) :
            IsFirstOccurrencesOf(out.e[n], obj.e[FirstOccurrences(obj.e)[n]])

\* No array of the value, at any depth, holds two elements of the same
\* structure key.
RECURSIVE NoRepeatedStructure(_)
NoRepeatedStructure(obj) ==
  /\ JsonType(obj) = "object" => \A key \in KeySet(obj) : NoRepeatedStructure(obj.f[key])
  /\ JsonType(obj) = "array" =>
       /\ \A k \in 1..Len(obj.e) : NoRepeatedStructure(obj.e[k])
       /\ \A j, k \in 1..Len(obj.e) :
            j # k => getStructureKey(obj.e[j]) # getStructureKey(obj.e[k])

\* C18: normalizeJsonStructure gives its argument with every array, at every
\* depth, cut down to the first element of each structure key, in order; no
\* array of the result holds two elements of the same structure key; and
\* normalizeJsonStructure of the result is the result.
C18_ArraysKeepFirstOfEachShape ==
  (op = "normalizeJsonStructure" /\ pc \in {"returned", "again"}) =>
    /\ ~ result.thrown
    /\ IsFirstOccurrencesOf(result.value, JsonParse(args[1]))
    /\ NoRepeatedStructure(result.value)
    /\ pc = "again" => second = result

\* An array of two objects of the same keys and a null: the second object is
\* left out, the array inside the first one is cut down to its first
\* element, and a second call changes nothing.
C18_Witness ==
  /\ op = "normalizeJsonStructure"
  /\ pc = "again"
  /\ args = <<"[{\"id\":[1,2]},{\"id\":1},null]">>
  /\ result.value = JArr(<<JObj([id |-> JArr(<<JNum(1)>>)]), JNull>>)
  /\ second = result

\* C19 as claimed: normalizeUrl of the URL normalizeUrl returned is that URL.
C19_NormalizeUrlIdempotent ==
  (op = "normalizeUrl" /\ pc = "again") => second = result

\* C20 as claimed: the test of deduplicateEntries for a duplicate gives the
\* same for two entries in either order, and deduplicateEntries keeps as many
\* of two entries in one order as in the other.
C20_DuplicateTestSymmetric ==
  (Compared("deduplicateEntries") /\ Len(entries) = 2) =>
    /\ IsDuplicateOf(entries[1], entries[2]) = IsDuplicateOf(entries[2], entries[1])
    /\ Len(result.value)
         = Len(deduplicateEntries(<<entries[2], entries[1]>>).value)

(***************************************************************************)
(* filterEntries: the order of the deduplication and of the predicates     *)
(***************************************************************************)
\* The options with deduplicate set to false
WithoutDeduplicate(opts) == ("deduplicate" :> FALSE) @@ opts

\* C21 as claimed: filterEntries with the deduplication on gives what
\* deduplicateEntries gives for the result of filterEntries with the same
\* options and the deduplication off (the URLs of the input being absolute).
C21_DeduplicationCommutesWithFilters ==
  (Returned("filterEntries") /\ DeduplicateRequested(options) /\ AllUrlsParse) =>
    result = deduplicateEntries(
               filterEntries(entries, WithoutDeduplicate(options)).value)

\* C21, amended: filterEntries with the deduplication on gives what
\* filterEntries with the same options and the deduplication off gives for
\* the result of deduplicateEntries: the deduplication comes first.
C21_DeduplicationBeforeFilters ==
  (Returned("filterEntries") /\ DeduplicateRequested(options)) =>
    /\ ~ deduplicateEntries(entries).thrown
    /\ result = filterEntries(deduplicateEntries(entries).value,
                              WithoutDeduplicate(options))

\* An entry that passes the predicates is a duplicate of an earlier entry
\* that does not: filterEntries returns nothing, and the predicates applied
\* first leave an entry for deduplicateEntries to keep.
C21_Witness ==
  /\ Returned("filterEntries")
  /\ DeduplicateRequested(options)
  /\ AllUrlsParse
  /\ result = [value |-> <<>>, thrown |-> FALSE]
  /\ Len(deduplicateEntries(
           filterEntries(entries, WithoutDeduplicate(options)).value).value) > 0

====
